---- MODULE Spec2Model ----
(***************************************************************************)
(* A model of src/src/scripts/Tag.js: one Tag, its two owned elements      *)
(* (buttonElement, popupElement), the six mutating methods with their      *)
(* cancelable-event protocol, the constructor and the static helpers.      *)
(*                                                                         *)
(* JavaScript values are tagged records [kind, str, num]:                  *)
(*   Str(s)  a string;   Num(q)  the number q/4 (quarters, so that x*100   *)
(*   is exact in IEEE-754 arithmetic);   Fn(r)  a callable returning the   *)
(*   string r;   Undefined.                                                *)
(* Attribute arguments are records [kind, entries]: an object with its     *)
(* own enumerable properties in insertion order, a string, or undefined.   *)
(***************************************************************************)
EXTENDS Integers, Sequences, FiniteSets

VARIABLES
  exists,   \* TRUE once `new Tag(...)` has returned an instance
  tag,      \* [buttonElement, popupElement]: the two owned DOM elements
  prev,     \* the value of tag when the last operation was entered
  op,       \* the last operation: [name, args, obs]
  trace,    \* the events the last operation dispatched, in order
  calls,    \* the invocations of a callable text made by the last operation
  result,   \* what the last operation did: returned the Tag (or, for the static merge, the element), or threw
  nops,     \* number of method calls made on the instance so far
  applied   \* per element, the attribute values merged onto it so far

vars == <<exists, tag, prev, op, trace, calls, result, nops, applied>>

\* Number of method calls explored after construction.
MaxOps == 3

----------------------------------------------------------------------------
(* JavaScript values *)

Str(s) == [kind |-> "string", str |-> s, num |-> 0]
Num(q) == [kind |-> "number", str |-> "", num |-> q]
Fn(r) == [kind |-> "function", str |-> r, num |-> 0]
Undefined == [kind |-> "undefined", str |-> "", num |-> 0]

\* Attribute arguments: {} / {name: value, ...}, a string, or undefined.
Obj(entries) == [kind |-> "object", entries |-> entries]
NonObj == [kind |-> "string", entries |-> <<>>]
NoArg == [kind |-> "undefined", entries |-> <<>>]

Digit(d) ==
  CASE d = 0 -> "0" [] d = 1 -> "1" [] d = 2 -> "2" [] d = 3 -> "3"
    [] d = 4 -> "4" [] d = 5 -> "5" [] d = 6 -> "6" [] d = 7 -> "7"
    [] d = 8 -> "8" [] d = 9 -> "9"

RECURSIVE NatToString(_)
NatToString(n) ==
  IF n < 10 THEN Digit(n) ELSE NatToString(n \div 10) \o Digit(n % 10)

\* Number::toString of the number q/4.
NumberToString(q) ==
  LET a == IF q < 0 THEN -q ELSE q
      frac == a % 4
  IN (IF q < 0 THEN "-" ELSE "")
       \o NatToString(a \div 4)
       \o (CASE frac = 0 -> "" [] frac = 1 -> ".25"
             [] frac = 2 -> ".5" [] frac = 3 -> ".75")

\* ToString, as applied by string concatenation and by the innerHTML setter.
ToString(v) ==
  CASE v.kind = "string" -> v.str
    [] v.kind = "number" -> NumberToString(v.num)
    [] v.kind = "undefined" -> "undefined"
    [] OTHER -> "function"

\* x * 100 on a number held in quarters.
Times100(v) == Num(v.num * 100)

----------------------------------------------------------------------------
(* ./util/object-is and ./util/type-error-message (not part of src/) *)

ObjectIs_ofType(v, type) == v.kind = type
ObjectIs_function(v) == v.kind = "function"
ObjectIs_number(v) == v.kind = "number"

NoError == [name |-> "", subject |-> "", expected |-> ""]
\* new Error(TypeErrorMessage.getMessage(object, expected))
TypeErrorMessage(subject, expected) ==
  [name |-> "Error", subject |-> subject, expected |-> expected]
\* Evaluating an undeclared identifier.
ReferenceError(identifier) ==
  [name |-> "ReferenceError", subject |-> identifier, expected |-> ""]

----------------------------------------------------------------------------
(* DOM elements and events *)

Null == "<null>"
NoStyle == [display |-> "", left |-> "", top |-> ""]

\* document.createElement(...)
createElement ==
  [attrs |-> [class |-> Null, id |-> Null], style |-> NoStyle, innerHTML |-> ""]

\* The inline style declared by the text of a style attribute.
ParseStyle(text) ==
  CASE text = "display: block; left: 10%;" ->
         [display |-> "block", left |-> "10%", top |-> ""]
    [] text = "top: 0%;" -> [display |-> "", left |-> "", top |-> "0%"]
    [] OTHER -> NoStyle

\* element.getAttribute(name)
getAttribute(element, name) ==
  CASE name = "class" -> element.attrs.class
    [] name = "id" -> element.attrs.id
    [] OTHER -> Null

\* element.setAttribute(name, value)
setAttribute(element, name, value) ==
  CASE name = "class" -> [element EXCEPT !.attrs.class = value]
    [] name = "id" -> [element EXCEPT !.attrs.id = value]
    [] name = "style" -> [element EXCEPT !.style = ParseStyle(value)]
    [] OTHER -> element

\* createTagEvent() creating a cancelable event.
createTagEvent_cancelable(eventName) ==
  [type |-> eventName, bubbles |-> TRUE, cancelable |-> TRUE]

createTagEvent(eventName) ==
  [type |-> eventName, bubbles |-> TRUE, cancelable |-> FALSE]

createCancelableTagEvent(eventName) ==
  [type |-> eventName, bubbles |-> TRUE, cancelable |-> TRUE]

\* An execution in progress: the Tag, the events dispatched so far, the
\* callable invocations so far, and the exception thrown (NoError if none).
Threw(c) == c.threw # NoError

Element(c, target) ==
  IF target = "buttonElement" THEN c.tag.buttonElement ELSE c.tag.popupElement

WithElement(c, target, element) ==
  IF target = "buttonElement"
    THEN [c EXCEPT !.tag.buttonElement = element]
    ELSE [c EXCEPT !.tag.popupElement = element]

\* The event reaches the listeners: each sees the Tag as it is now.
Announce(c, target, event) ==
  [c EXCEPT !.trace = Append(@, [type |-> event.type,
                                 cancelable |-> event.cancelable,
                                 target |-> target,
                                 seen |-> c.tag])]

\* A call a listener makes back into the Tag: [name, args]; NoCall if none.
NoCall == [name |-> "none", args |-> <<>>]

\* Listeners that do nothing.  The elements are created inside the
\* constructor: nothing can listen on them until it has returned.
NoObs == [intent |-> FALSE, confirm |-> FALSE, nested |-> NoCall]

\* target.dispatchEvent(event): every listener on the target and its
\* ancestors runs and sees the Tag as it is now; `prevented` says whether
\* one of them calls event.preventDefault().  The return value is false
\* only for a cancelable event that was prevented.
dispatchEvent(c, target, event, prevented) ==
  [c |-> Announce(c, target, event),
   ret |-> ~(event.cancelable /\ prevented)]

----------------------------------------------------------------------------
(* Tag: static helpers *)

Truthy(value) == value # Null /\ value # ""

\* The loop of setElementAttributes with `class` overwritten like any
\* other attribute.
RECURSIVE setEachAttribute_overwriting(_, _)
setEachAttribute_overwriting(element, entries) ==
  IF entries = <<>> THEN element
  ELSE setEachAttribute_overwriting(
         setAttribute(element, Head(entries).name, Head(entries).value),
         Tail(entries))

\* The for-in loop of setElementAttributes over the remaining entries.
RECURSIVE setEachAttribute(_, _)
setEachAttribute(element, entries) ==
  IF entries = <<>> THEN element
  ELSE LET attribute == Head(entries).name
           value == Head(entries).value
           next ==
             IF attribute = "class" /\ Truthy(getAttribute(element, attribute))
               THEN LET classValue == getAttribute(element, attribute) \o " " \o value
                    IN setAttribute(element, attribute, classValue)
               ELSE setAttribute(element, attribute, value)
       IN setEachAttribute(next, Tail(entries))

\* A default parameter value `= {}` replaces undefined only.
DefaultObject(attributes) ==
  IF attributes.kind = "undefined" THEN Obj(<<>>) ELSE attributes

\* Tag.setElementAttributes(element, attributes = {})
setElementAttributes(c, target, attributes) ==
  LET a == DefaultObject(attributes)
  IN IF ~ObjectIs_ofType(a, "object")
       THEN [c EXCEPT !.threw = TypeErrorMessage("attributes", "an object")]
       ELSE WithElement(c, target, setEachAttribute(Element(c, target), a.entries))

\* getPositionStyle() with left and top exchanged.
getPositionStyle_swapped(x, y) ==
  [left |-> ToString(Times100(y)) \o "%",
   top |-> ToString(Times100(x)) \o "%"]

\* Tag.getPositionStyle(x, y)
getPositionStyle(x, y) ==
  [left |-> ToString(Times100(x)) \o "%",
   top |-> ToString(Times100(y)) \o "%"]

----------------------------------------------------------------------------
(* Tag: methods.  obs.intent / obs.confirm say whether a listener calls    *)
(* preventDefault() on the intent / on the confirm event.                  *)

\* show() that does nothing on a popup that is not hidden.
show_onlyWhenHidden(c, obs) ==
  IF c.tag.popupElement.style.display # "none" THEN c
  ELSE
    LET showEvent == createCancelableTagEvent("taggd.tag.show")
        d == dispatchEvent(c, "popupElement", showEvent, obs.intent)
        isCanceled == ~d.ret
    IN IF ~isCanceled
         THEN LET c1 == [d.c EXCEPT !.tag.popupElement.style.display = ""]
                  shownEvent == createTagEvent("taggd.tag.shown")
              IN dispatchEvent(c1, "popupElement", shownEvent, obs.confirm).c
         ELSE d.c

\* show() that applies the change whatever the listeners decided.
show_ignoringVeto(c, obs) ==
  LET showEvent == createCancelableTagEvent("taggd.tag.show")
      d == dispatchEvent(c, "popupElement", showEvent, obs.intent)
      c1 == [d.c EXCEPT !.tag.popupElement.style.display = ""]
      shownEvent == createTagEvent("taggd.tag.shown")
  IN dispatchEvent(c1, "popupElement", shownEvent, obs.confirm).c

\* show() from the return of its intent's dispatch on: d.ret is !isCanceled.
show_decided(d, obs) ==
  IF d.ret
    THEN dispatchEvent([d.c EXCEPT !.tag.popupElement.style.display = ""],
                       "popupElement", createTagEvent("taggd.tag.shown"),
                       obs.confirm).c
    ELSE d.c

show(c, obs) ==
  show_decided(dispatchEvent(c, "popupElement",
                             createCancelableTagEvent("taggd.tag.show"),
                             obs.intent), obs)

\* hide() that applies the change whatever the listeners decided.
hide_ignoringVeto(c, obs) ==
  LET hideEvent == createCancelableTagEvent("taggd.tag.hide")
      d == dispatchEvent(c, "popupElement", hideEvent, obs.intent)
      c1 == [d.c EXCEPT !.tag.popupElement.style.display = "none"]
      hiddenEvent == createTagEvent("taggd.tag.hidden")
  IN dispatchEvent(c1, "popupElement", hiddenEvent, obs.confirm).c

\* hide() from the return of its intent's dispatch on: d.ret is !isCanceled.
hide_decided(d, obs) ==
  IF d.ret
    THEN dispatchEvent([d.c EXCEPT !.tag.popupElement.style.display = "none"],
                       "popupElement", createTagEvent("taggd.tag.hidden"),
                       obs.confirm).c
    ELSE d.c

hide(c, obs) ==
  hide_decided(dispatchEvent(c, "popupElement",
                             createCancelableTagEvent("taggd.tag.hide"),
                             obs.intent), obs)

\* setText() that appends to the markup instead of replacing it.
setText_appending(c, text, obs) ==
  IF ~ObjectIs_ofType(text, "string") /\ ObjectIs_function(text)
    THEN [c EXCEPT !.threw = ReferenceError("type")]
    ELSE
      LET changeEvent == createCancelableTagEvent("taggd.tag.change")
          d == dispatchEvent(c, "popupElement", changeEvent, obs.intent)
          isCanceled == ~d.ret
      IN IF ~isCanceled
           THEN LET c1 == [d.c EXCEPT !.tag.popupElement.innerHTML = @ \o ToString(text)]
                    changedEvent == createTagEvent("taggd.tag.changed")
                IN dispatchEvent(c1, "popupElement", changedEvent, obs.confirm).c
           ELSE d.c

\* setText() from the return of its intent's dispatch on.
setText_decided(d, text, obs) ==
  IF d.ret
    THEN dispatchEvent(
           IF ObjectIs_function(text)
             THEN [d.c EXCEPT !.calls = Append(@, <<"this">>),
                              !.tag.popupElement.innerHTML = text.str]
             ELSE [d.c EXCEPT !.tag.popupElement.innerHTML = ToString(text)],
           "popupElement", createTagEvent("taggd.tag.changed"),
           obs.confirm).c
    ELSE d.c

setText(c, text, obs) ==
  IF ~ObjectIs_ofType(text, "string") /\ ObjectIs_function(text)
    THEN \* the argument list of the throw names the undeclared `type`
         [c EXCEPT !.threw = ReferenceError("type")]
    ELSE setText_decided(dispatchEvent(c, "popupElement",
                                       createCancelableTagEvent("taggd.tag.change"),
                                       obs.intent), text, obs)

\* The listener's call back into the Tag, run to its end inside the
\* dispatch that invoked the listener; its own listeners do nothing.
Reenter(c, call) ==
  CASE call.name = "show" -> show(c, NoObs)
    [] call.name = "hide" -> hide(c, NoObs)
    [] call.name = "setText" -> setText(c, call.args[1], NoObs)
    [] OTHER -> c

\* A dispatch in which the listener's call has run to its end before the
\* event is announced.
dispatchEvent_callFirst(c, target, event, obs) ==
  [c |-> Announce(Reenter(c, obs.nested), target, event),
   ret |-> ~(event.cancelable /\ obs.intent)]

\* target.dispatchEvent(event) of an intent whose listener makes the call
\* obs.nested on the Tag: the call runs synchronously, before dispatchEvent
\* returns to the method that dispatched.
dispatchEvent_reentered(c, target, event, obs) ==
  [c |-> Reenter(Announce(c, target, event), obs.nested),
   ret |-> ~(event.cancelable /\ obs.intent)]

\* show() and hide() with such a listener on their intent.
show_reentered(c, obs) ==
  show_decided(dispatchEvent_reentered(c, "popupElement",
                                       createCancelableTagEvent("taggd.tag.show"),
                                       obs), obs)

hide_reentered(c, obs) ==
  hide_decided(dispatchEvent_reentered(c, "popupElement",
                                       createCancelableTagEvent("taggd.tag.hide"),
                                       obs), obs)

\* setPosition() that validates y before x.
setPosition_checkingYFirst(c, x, y, obs) ==
  IF ~ObjectIs_number(y)
    THEN [c EXCEPT !.threw = TypeErrorMessage(ToString(y), "a number")]
  ELSE IF ~ObjectIs_number(x)
    THEN [c EXCEPT !.threw = TypeErrorMessage(ToString(x), "a number")]
  ELSE
    LET changeEvent == createCancelableTagEvent("taggd.tag.change")
        d == dispatchEvent(c, "popupElement", changeEvent, obs.intent)
        isCanceled == ~d.ret
    IN IF ~isCanceled
         THEN LET positionStyle == getPositionStyle(x, y)
                  c1 == [d.c EXCEPT !.tag.popupElement.style.left = positionStyle.left,
                                    !.tag.popupElement.style.top = positionStyle.top]
                  changedEvent == createTagEvent("taggd.tag.changed")
              IN dispatchEvent(c1, "popupElement", changedEvent, obs.confirm).c
         ELSE d.c

setPosition(c, x, y, obs) ==
  IF ~ObjectIs_number(x)
    THEN [c EXCEPT !.threw = TypeErrorMessage(ToString(x), "a number")]
  ELSE IF ~ObjectIs_number(y)
    THEN [c EXCEPT !.threw = TypeErrorMessage(ToString(y), "a number")]
  ELSE
    LET changeEvent == createCancelableTagEvent("taggd.tag.change")
        d == dispatchEvent(c, "popupElement", changeEvent, obs.intent)
        isCanceled == ~d.ret
    IN IF ~isCanceled
         THEN LET positionStyle == getPositionStyle(x, y)
                  c1 == [d.c EXCEPT !.tag.popupElement.style.left = positionStyle.left,
                                    !.tag.popupElement.style.top = positionStyle.top]
                  changedEvent == createTagEvent("taggd.tag.changed")
              IN dispatchEvent(c1, "popupElement", changedEvent, obs.confirm).c
         ELSE d.c

\* setButtonAttributes() that merges the attributes before it asks.
setButtonAttributes_applyingFirst(c, attributes, obs) ==
  LET c0 == setElementAttributes(c, "buttonElement", DefaultObject(attributes))
      changeEvent == createCancelableTagEvent("taggd.tag.change")
      d == dispatchEvent(c0, "buttonElement", changeEvent, obs.intent)
      isCanceled == ~d.ret
      changedEvent == createTagEvent("taggd.tag.changed")
  IN IF Threw(c0) THEN c0
     ELSE IF ~isCanceled
       THEN dispatchEvent(d.c, "buttonElement", changedEvent, obs.confirm).c
       ELSE d.c

setButtonAttributes(c, attributes, obs) ==
  LET changeEvent == createCancelableTagEvent("taggd.tag.change")
      d == dispatchEvent(c, "buttonElement", changeEvent, obs.intent)
      isCanceled == ~d.ret
  IN IF ~isCanceled
       THEN LET c1 == setElementAttributes(d.c, "buttonElement", DefaultObject(attributes))
                changedEvent == createTagEvent("taggd.tag.changed")
            IN IF Threw(c1) THEN c1
               ELSE dispatchEvent(c1, "buttonElement", changedEvent, obs.confirm).c
       ELSE d.c

\* setPopupAttributes() dispatching its events on the button.
setPopupAttributes_onButton(c, attributes, obs) ==
  LET changeEvent == createCancelableTagEvent("taggd.tag.change")
      d == dispatchEvent(c, "buttonElement", changeEvent, obs.intent)
      isCanceled == ~d.ret
  IN IF ~isCanceled
       THEN LET c1 == setElementAttributes(d.c, "popupElement", DefaultObject(attributes))
                changedEvent == createTagEvent("taggd.tag.changed")
            IN IF Threw(c1) THEN c1
               ELSE dispatchEvent(c1, "buttonElement", changedEvent, obs.confirm).c
       ELSE d.c

setPopupAttributes(c, attributes, obs) ==
  LET changeEvent == createCancelableTagEvent("taggd.tag.change")
      d == dispatchEvent(c, "popupElement", changeEvent, obs.intent)
      isCanceled == ~d.ret
  IN IF ~isCanceled
       THEN LET c1 == setElementAttributes(d.c, "popupElement", DefaultObject(attributes))
                changedEvent == createTagEvent("taggd.tag.changed")
            IN IF Threw(c1) THEN c1
               ELSE dispatchEvent(c1, "popupElement", changedEvent, obs.confirm).c
       ELSE d.c

NewTag == [buttonElement |-> createElement, popupElement |-> createElement]

Enter(t) == [tag |-> t, trace |-> <<>>, calls |-> <<>>, threw |-> NoError]

\* The statements of the constructor body after the first: a statement
\* runs only if none before it threw.
Then_setPopupAttributes(c, popupAttributes) ==
  IF Threw(c) THEN c ELSE setPopupAttributes(c, popupAttributes, NoObs)
Then_setPosition(c, x, y) ==
  IF Threw(c) THEN c ELSE setPosition(c, x, y, NoObs)
Then_setText(c, text) ==
  IF Threw(c) THEN c ELSE setText(c, text, NoObs)
Then_hide(c) ==
  IF Threw(c) THEN c ELSE hide(c, NoObs)

\* The constructor placing the popup before it merges the popup attributes.
constructor_positionFirst(position, text, buttonAttributes, popupAttributes) ==
  LET c0 == Enter(NewTag)
      c1 == setButtonAttributes(c0, DefaultObject(buttonAttributes), NoObs)
      c2 == Then_setPosition(c1, position.x, position.y)
      c3 == Then_setPopupAttributes(c2, DefaultObject(popupAttributes))
      c4 == Then_setText(c3, text)
  IN Then_hide(c4)

\* new Tag(position, text, buttonAttributes = {}, popupAttributes = {})
constructor(position, text, buttonAttributes, popupAttributes) ==
  LET c0 == Enter(NewTag)
      c1 == setButtonAttributes(c0, DefaultObject(buttonAttributes), NoObs)
      c2 == Then_setPopupAttributes(c1, DefaultObject(popupAttributes))
      c3 == Then_setPosition(c2, position.x, position.y)
      c4 == Then_setText(c3, text)
  IN Then_hide(c4)

\* createFromObject() passing the two attribute maps in the wrong order.
createFromObject_swappingAttributes(object) ==
  constructor(object.position, object.text,
              object.popupAttributes, object.buttonAttributes)

\* Tag.createFromObject(object)
createFromObject(object) ==
  constructor(object.position, object.text,
              object.buttonAttributes, object.popupAttributes)

----------------------------------------------------------------------------
(* Inputs *)

Texts == {Str("hi"), Str("<b>x</b>"), Fn("yo"), Num(168)}
Xs == {Num(2), Num(-6), Str("a")}
Ys == {Num(1), Num(5), Str("b")}
Attr(name, value) == [name |-> name, value |-> value]
AttributeArgs ==
  { NoArg, NonObj,
    Obj(<<Attr("class", "a")>>), Obj(<<Attr("class", "b")>>),
    Obj(<<Attr("id", "x")>>), Obj(<<Attr("id", "y"), Attr("class", "")>>),
    Obj(<<Attr("id", "z"), Attr("class", "c")>>),
    Obj(<<Attr("style", "display: block; left: 10%;")>>) }
InitialAttributeArgs ==
  { NoArg, NonObj, Obj(<<Attr("class", "a")>>),
    Obj(<<Attr("style", "display: block; left: 10%;")>>) }
Observers ==
  { [intent |-> FALSE, confirm |-> FALSE, nested |-> NoCall],
    [intent |-> TRUE, confirm |-> FALSE, nested |-> NoCall],
    [intent |-> FALSE, confirm |-> TRUE, nested |-> NoCall] }

\* Intent listeners that call back into the Tag, then veto or not.
NestedCalls ==
  { [name |-> "show", args |-> <<>>], [name |-> "hide", args |-> <<>>],
    [name |-> "setText", args |-> <<Str("yo")>>] }
ReentrantObservers ==
  { [intent |-> v, confirm |-> FALSE, nested |-> call] :
      v \in BOOLEAN, call \in NestedCalls }

\* Constructor arguments: a plain Tag, every variation of one argument of
\* it, and one Tag with every argument set.
PlainArgs ==
  [x |-> Num(2), y |-> Num(1), text |-> Str("hi"),
   buttonAttributes |-> NoArg, popupAttributes |-> NoArg]
FullArgs ==
  [x |-> Num(-6), y |-> Num(5), text |-> Str("<b>x</b>"),
   buttonAttributes |-> Obj(<<Attr("class", "a")>>),
   popupAttributes |-> Obj(<<Attr("style", "display: block; left: 10%;")>>)]
ConstructorArgs ==
  {FullArgs} \cup
  { a \in [x : Xs, y : Ys, text : Texts,
           buttonAttributes : InitialAttributeArgs,
           popupAttributes : InitialAttributeArgs] :
      Cardinality({f \in DOMAIN a : a[f] # PlainArgs[f]}) <= 1 }

----------------------------------------------------------------------------
(* Specification *)

Outcome(c) == IF Threw(c) THEN c.threw ELSE [NoError EXCEPT !.name = "Tag"]
Returned == [NoError EXCEPT !.name = "Tag"]

\* The values merged onto one element so far: every class value in order,
\* and the latest id and style.
NoneApplied == [class |-> <<>>, id |-> Null, style |-> Null]

RECURSIVE Merged(_, _)
Merged(h, entries) ==
  IF entries = <<>> THEN h
  ELSE LET e == Head(entries)
       IN Merged(CASE e.name = "class" -> [h EXCEPT !.class = Append(@, e.value)]
                   [] e.name = "id" -> [h EXCEPT !.id = e.value]
                   [] OTHER -> [h EXCEPT !.style = e.value],
                 Tail(entries))

\* The execution c of a setter ran setElementAttributes to its end.
MergeDone(c) ==
  /\ ~Threw(c)
  /\ Len(c.trace) >= 1
  /\ c.trace[Len(c.trace)].type = "taggd.tag.changed"

AppliedAfter(o, c) ==
  IF o.name = "setButtonAttributes" /\ MergeDone(c)
    THEN [applied EXCEPT
            !.buttonElement = Merged(@, DefaultObject(o.args[1]).entries)]
  ELSE IF o.name = "setPopupAttributes" /\ MergeDone(c)
    THEN [applied EXCEPT
            !.popupElement = Merged(@, DefaultObject(o.args[1]).entries)]
  ELSE IF o.name = "setElementAttributes" /\ ~Threw(c)
    THEN [applied EXCEPT
            ![o.args[1]] = Merged(@, DefaultObject(o.args[2]).entries)]
  ELSE applied

AppliedByConstructor(a) ==
  [buttonElement |-> Merged(NoneApplied, DefaultObject(a.buttonAttributes).entries),
   popupElement |-> Merged(NoneApplied, DefaultObject(a.popupAttributes).entries)]

Init ==
  /\ applied = [buttonElement |-> NoneApplied, popupElement |-> NoneApplied]
  /\ exists = FALSE
  /\ tag = NewTag
  /\ prev = NewTag
  /\ op = [name |-> "none", args |-> <<>>, obs |-> NoObs]
  /\ trace = <<>>
  /\ calls = <<>>
  /\ result = NoError
  /\ nops = 0

\* The effect of a finished execution c of operation o on the instance.
Finish(o, c) ==
  /\ prev' = tag
  /\ tag' = c.tag
  /\ op' = o
  /\ trace' = c.trace
  /\ calls' = c.calls
  /\ result' = Outcome(c)
  /\ applied' = AppliedAfter(o, c)

Construct ==
  /\ op.name = "none"
  /\ \E a \in ConstructorArgs :
       LET position == [x |-> a.x, y |-> a.y]
           c == constructor(position, a.text, a.buttonAttributes, a.popupAttributes)
       IN /\ prev' = NewTag
          /\ tag' = c.tag
          /\ op' = [name |-> "constructor",
                    args |-> <<position, a.text, a.buttonAttributes,
                               a.popupAttributes>>,
                    obs |-> NoObs]
          /\ trace' = c.trace
          /\ calls' = c.calls
          /\ result' = Outcome(c)
          /\ exists' = ~Threw(c)
          /\ applied' = IF Threw(c) THEN applied ELSE AppliedByConstructor(a)
  /\ nops' = 0

CreateFromObject ==
  /\ op.name = "none"
  /\ \E a \in ConstructorArgs :
       LET object == [position |-> [x |-> a.x, y |-> a.y], text |-> a.text,
                      buttonAttributes |-> a.buttonAttributes,
                      popupAttributes |-> a.popupAttributes]
           c == createFromObject(object)
       IN /\ prev' = NewTag
          /\ tag' = c.tag
          /\ op' = [name |-> "createFromObject", args |-> <<object>>, obs |-> NoObs]
          /\ trace' = c.trace
          /\ calls' = c.calls
          /\ result' = Outcome(c)
          /\ exists' = ~Threw(c)
          /\ applied' = IF Threw(c) THEN applied ELSE AppliedByConstructor(a)
  /\ nops' = 0

CanCall == exists /\ nops < MaxOps

Show ==
  /\ CanCall
  /\ \E obs \in Observers :
       Finish([name |-> "show", args |-> <<>>, obs |-> obs], show(Enter(tag), obs))
  /\ nops' = nops + 1
  /\ UNCHANGED exists

Hide ==
  /\ CanCall
  /\ \E obs \in Observers :
       Finish([name |-> "hide", args |-> <<>>, obs |-> obs], hide(Enter(tag), obs))
  /\ nops' = nops + 1
  /\ UNCHANGED exists

SetText ==
  /\ CanCall
  /\ \E text \in Texts, obs \in Observers :
       Finish([name |-> "setText", args |-> <<text>>, obs |-> obs],
              setText(Enter(tag), text, obs))
  /\ nops' = nops + 1
  /\ UNCHANGED exists

SetPosition ==
  /\ CanCall
  /\ \E x \in Xs, y \in Ys, obs \in Observers :
       Finish([name |-> "setPosition", args |-> <<x, y>>, obs |-> obs],
              setPosition(Enter(tag), x, y, obs))
  /\ nops' = nops + 1
  /\ UNCHANGED exists

SetButtonAttributes ==
  /\ CanCall
  /\ \E attributes \in AttributeArgs, obs \in Observers :
       Finish([name |-> "setButtonAttributes", args |-> <<attributes>>, obs |-> obs],
              setButtonAttributes(Enter(tag), attributes, obs))
  /\ nops' = nops + 1
  /\ UNCHANGED exists

SetPopupAttributes ==
  /\ CanCall
  /\ \E attributes \in AttributeArgs, obs \in Observers :
       Finish([name |-> "setPopupAttributes", args |-> <<attributes>>, obs |-> obs],
              setPopupAttributes(Enter(tag), attributes, obs))
  /\ nops' = nops + 1
  /\ UNCHANGED exists

\* The page calls the static Tag.setElementAttributes on one of the Tag's
\* elements: the merge is applied at once; no event is dispatched and no
\* listener is asked.
Surfaces == {"buttonElement", "popupElement"}

\* `return element`: the call returns the element it was given, not the Tag.
ReturnedElement(target) == [NoError EXCEPT !.name = target]

\* The effect of a finished execution c of the static call o.
FinishStatic(o, c) ==
  /\ prev' = tag
  /\ tag' = c.tag
  /\ op' = o
  /\ trace' = c.trace
  /\ calls' = c.calls
  /\ result' = (IF Threw(c) THEN c.threw ELSE ReturnedElement(o.args[1]))
  /\ applied' = AppliedAfter(o, c)

SetElementAttributes ==
  /\ CanCall
  /\ \E target \in Surfaces, attributes \in AttributeArgs :
       FinishStatic([name |-> "setElementAttributes",
                     args |-> <<target, attributes>>, obs |-> NoObs],
                    setElementAttributes(Enter(tag), target, attributes))
  /\ nops' = nops + 1
  /\ UNCHANGED exists

Next ==
  \/ Construct
  \/ CreateFromObject
  \/ Show
  \/ Hide
  \/ SetText
  \/ SetPosition
  \/ SetButtonAttributes
  \/ SetPopupAttributes
  \/ SetElementAttributes

Spec == Init /\ [][Next]_vars

\* The same, with intent listeners of show() and hide() that call back into
\* the Tag.
ShowReentered ==
  /\ CanCall
  /\ \E obs \in ReentrantObservers :
       Finish([name |-> "show", args |-> <<>>, obs |-> obs],
              show_reentered(Enter(tag), obs))
  /\ nops' = nops + 1
  /\ UNCHANGED exists

HideReentered ==
  /\ CanCall
  /\ \E obs \in ReentrantObservers :
       Finish([name |-> "hide", args |-> <<>>, obs |-> obs],
              hide_reentered(Enter(tag), obs))
  /\ nops' = nops + 1
  /\ UNCHANGED exists

NextReentrant ==
  \/ Next
  \/ ShowReentered
  \/ HideReentered

SpecReentrant == Init /\ [][NextReentrant]_vars

----------------------------------------------------------------------------
(* Vocabulary of the properties *)

\* The last step was a method call on a constructed Tag.
Called(names) == exists /\ nops >= 1 /\ op.name \in names

Setters == {"setText", "setPosition", "setButtonAttributes", "setPopupAttributes"}
Intents == {"taggd.tag.show", "taggd.tag.hide", "taggd.tag.change"}
Confirms == {"taggd.tag.shown", "taggd.tag.hidden", "taggd.tag.changed"}
ConfirmOf(type) ==
  CASE type = "taggd.tag.show" -> "taggd.tag.shown"
    [] type = "taggd.tag.hide" -> "taggd.tag.hidden"
    [] OTHER -> "taggd.tag.changed"
IntentOfOp(name) ==
  CASE name = "show" -> "taggd.tag.show"
    [] name = "hide" -> "taggd.tag.hide"
    [] OTHER -> "taggd.tag.change"

Types == [i \in 1..Len(trace) |-> trace[i].type]

\* The last call dispatched its intent and a listener vetoed it.
IntentVetoed ==
  /\ Len(trace) >= 1
  /\ trace[1].type = IntentOfOp(op.name)
  /\ trace[1].cancelable
  /\ op.obs.intent

\* The arguments of the last call are ones the documentation accepts.
ValidText(text) == text.kind \in {"string", "function"}
ValidCoordinate(v) == v.kind = "number"
ValidAttributes(a) == a.kind \in {"object", "undefined"}
ValidArgs ==
  CASE op.name = "setText" -> ValidText(op.args[1])
    [] op.name = "setPosition" ->
         ValidCoordinate(op.args[1]) /\ ValidCoordinate(op.args[2])
    [] op.name \in {"setButtonAttributes", "setPopupAttributes"} ->
         ValidAttributes(op.args[1])
    [] op.name = "setElementAttributes" -> ValidAttributes(op.args[2])
    [] OTHER -> TRUE

----------------------------------------------------------------------------
(* Properties *)

\* C1: when a listener vetoes the show (hide) intent, the popup's display is
\* what it was before the call, no shown (hidden) event is dispatched, and
\* the call returns the Tag.
C1_VetoedShowHideChangesNothing ==
  (Called({"show", "hide"}) /\ IntentVetoed) =>
    /\ tag.popupElement.style.display = prev.popupElement.style.display
    /\ tag = prev
    /\ Types = <<IntentOfOp(op.name)>>
    /\ result = Returned

\* show() vetoed on a hidden Tag.
C1_Witness ==
  /\ Called({"show"}) /\ IntentVetoed
  /\ prev.popupElement.style.display = "none"

\* C2: when a listener vetoes the change intent of setText, setPosition,
\* setButtonAttributes or setPopupAttributes called with valid arguments,
\* markup, position style and the attributes of both elements are unchanged,
\* no changed event is dispatched, and the call returns the Tag.
C2_VetoedChangeChangesNothing ==
  (Called(Setters) /\ ValidArgs /\ IntentVetoed) =>
    /\ tag.popupElement.innerHTML = prev.popupElement.innerHTML
    /\ tag.popupElement.style = prev.popupElement.style
    /\ tag.popupElement.attrs = prev.popupElement.attrs
    /\ tag.buttonElement = prev.buttonElement
    /\ Types = <<"taggd.tag.change">>
    /\ result = Returned

\* A vetoed setButtonAttributes({class: 'b'}) on a button of class 'a'.
C2_Witness ==
  /\ Called({"setButtonAttributes"}) /\ IntentVetoed
  /\ op.args[1] = Obj(<<Attr("class", "b")>>)
  /\ prev.buttonElement.attrs.class = "a"

\* C3: every call with valid arguments that no listener vetoes dispatches
\* exactly one intent, seen with the state before the call, then exactly one
\* confirm of the matching kind, seen with the state after it; and a confirm
\* is only ever dispatched after a non-vetoed intent of the same call.
C3_IntentMutationConfirm ==
  /\ (Called(Setters \cup {"show", "hide"}) /\ ValidArgs /\ ~op.obs.intent) =>
       /\ Types = <<IntentOfOp(op.name), ConfirmOf(IntentOfOp(op.name))>>
       /\ trace[1].seen = prev
       /\ trace[2].seen = tag
       /\ trace[1].target = trace[2].target
  /\ \A i \in 1..Len(trace) :
       trace[i].type \in Confirms =>
         /\ i > 1
         /\ trace[i - 1].type \in Intents
         /\ trace[i].type = ConfirmOf(trace[i - 1].type)
         /\ (nops >= 1 => ~op.obs.intent)

\* C4: an argument the documentation rejects makes the call throw before
\* any event is dispatched and before either element changes.
C4_InvalidArgumentThrowsFirst ==
  (Called(Setters \cup {"setElementAttributes"}) /\ ~ValidArgs) =>
    /\ result.name = "Error"
    /\ trace = <<>>
    /\ tag = prev

\* C5: a non-vetoed setText(fn) calls fn once with the Tag, leaves the markup
\* equal to what fn returned, dispatches changed and returns the Tag.
C5_CallableText ==
  (Called({"setText"}) /\ op.args[1].kind = "function" /\ ~op.obs.intent) =>
    /\ calls = << <<"this">> >>
    /\ tag.popupElement.innerHTML = op.args[1].str
    /\ Len(trace) >= 1 /\ trace[Len(trace)].type = "taggd.tag.changed"
    /\ result = Returned

\* C6: setText with neither a string nor a callable throws an
\* invalid-argument error and leaves the markup as it was.
C6_InvalidTextThrows ==
  (Called({"setText"}) /\ ~ValidText(op.args[1])) =>
    /\ result.name = "Error"
    /\ tag.popupElement.innerHTML = prev.popupElement.innerHTML

\* C7: a non-vetoed setText(s) with a string s leaves the markup equal to s
\* and changes neither the style (display, left, top) nor any attribute.
C7_StringText ==
  (Called({"setText"}) /\ op.args[1].kind = "string" /\ ~op.obs.intent) =>
    /\ tag.popupElement.innerHTML = op.args[1].str
    /\ tag.popupElement.style = prev.popupElement.style
    /\ tag.popupElement.attrs = prev.popupElement.attrs
    /\ tag.buttonElement = prev.buttonElement
    /\ result = Returned

\* setText('hi') on a shown, placed Tag whose markup was '<b>x</b>'.
C7_Witness ==
  /\ Called({"setText"}) /\ ~op.obs.intent
  /\ op.args[1] = Str("hi")
  /\ prev.popupElement.innerHTML = "<b>x</b>"
  /\ prev.popupElement.style.display = ""
  /\ tag.popupElement.innerHTML = "hi"

\* C8: constructing a Tag (constructor or createFromObject) with a valid
\* position, a valid text and attribute maps completes with a hidden popup.
ValidConstruction ==
  LET a == IF op.name = "constructor"
             THEN [position |-> op.args[1], text |-> op.args[2],
                   buttonAttributes |-> op.args[3], popupAttributes |-> op.args[4]]
             ELSE op.args[1]
  IN /\ ValidCoordinate(a.position.x) /\ ValidCoordinate(a.position.y)
     /\ ValidText(a.text)
     /\ ValidAttributes(a.buttonAttributes) /\ ValidAttributes(a.popupAttributes)

C8_ConstructedHidden ==
  (op.name \in {"constructor", "createFromObject"} /\ ValidConstruction) =>
    /\ exists
    /\ result = Returned
    /\ tag.popupElement.style.display = "none"

\* C9: setPosition with a coordinate that is not a number throws an
\* invalid-argument error about the first such coordinate (x before y),
\* leaves the style as it was and dispatches nothing.
C9_InvalidPositionThrows ==
  (Called({"setPosition"}) /\ ~ValidArgs) =>
    LET x == op.args[1]
        y == op.args[2]
        culprit == IF ~ValidCoordinate(x) THEN x ELSE y
    IN /\ result = TypeErrorMessage(culprit.str, "a number")
       /\ tag.popupElement.style = prev.popupElement.style
       /\ tag = prev
       /\ trace = <<>>

\* setPosition('a', 'b') on a placed Tag.
C9_Witness ==
  /\ Called({"setPosition"})
  /\ op.args = <<Str("a"), Str("b")>>
  /\ result.subject = "a"
  /\ prev.popupElement.style.left = "50%"

\* C10: a non-vetoed setPosition(x, y) with numbers leaves left equal to
\* (x*100)+'%' and top equal to (y*100)+'%', whatever they were before:
\* 0.5 gives '50%', 0.25 gives '25%', -1.5 gives '-150%', 1.25 gives '125%'.
Percent(v) ==
  CASE v = Num(2) -> "50%" [] v = Num(1) -> "25%"
    [] v = Num(-6) -> "-150%" [] v = Num(5) -> "125%"

C10_PositionStyle ==
  (Called({"setPosition"}) /\ ValidArgs /\ ~op.obs.intent) =>
    /\ tag.popupElement.style.left = Percent(op.args[1])
    /\ tag.popupElement.style.top = Percent(op.args[2])
    /\ tag.popupElement.style.display = prev.popupElement.style.display

\* setPosition(-1.5, 0.25) on a Tag placed at 50% / 125%.
C10_Witness ==
  /\ Called({"setPosition"}) /\ ~op.obs.intent
  /\ op.args = <<Num(-6), Num(1)>>
  /\ prev.popupElement.style.left = "50%"
  /\ prev.popupElement.style.top = "125%"
  /\ tag.popupElement.style.left = "-150%"
  /\ tag.popupElement.style.top = "25%"

RECURSIVE JoinedBySpaces(_)
JoinedBySpaces(values) ==
  IF Len(values) = 1 THEN values[1]
  ELSE JoinedBySpaces(SubSeq(values, 1, Len(values) - 1))
         \o " " \o values[Len(values)]

\* C11: after any sequence of merges of non-empty values onto an element,
\* class holds every class value merged so far, in order, joined by single
\* spaces (a first class as given), and id holds the value merged last.
C11_AttributeMerge ==
  exists =>
    \A s \in {"buttonElement", "popupElement"} :
      LET h == applied[s]
          element == tag[s]
      IN (\A i \in 1..Len(h.class) : h.class[i] # "") =>
           /\ element.attrs.class =
                (IF h.class = <<>> THEN Null ELSE JoinedBySpaces(h.class))
           /\ element.attrs.id = h.id
           /\ (s = "buttonElement" /\ h.style # Null) =>
                element.style = ParseStyle(h.style)

\* A button built with class 'a', then given id 'x', class 'b', and last
\* {id: 'z', class: 'c'}.
C11_Witness ==
  /\ exists
  /\ applied.buttonElement.class = <<"a", "b", "c">>
  /\ prev.buttonElement.attrs.id = "x"
  /\ tag.buttonElement.attrs.id = "z"
  /\ tag.buttonElement.attrs.class = "a b c"

\* C12: setButtonAttributes dispatches on the button and changes only the
\* button; every other method dispatches on the popup and never changes
\* the button.
OnlyTarget(target) == \A i \in 1..Len(trace) : trace[i].target = target

C12_SurfaceOfEachMethod ==
  /\ Called({"setButtonAttributes"}) =>
       /\ OnlyTarget("buttonElement")
       /\ tag.popupElement = prev.popupElement
  /\ Called({"setPopupAttributes", "setText", "setPosition", "show", "hide"}) =>
       /\ OnlyTarget("popupElement")
       /\ tag.buttonElement = prev.buttonElement

\* A non-vetoed setButtonAttributes that changed the button.
C12_Witness ==
  /\ Called({"setButtonAttributes"})
  /\ Types = <<"taggd.tag.change", "taggd.tag.changed">>
  /\ tag.buttonElement # prev.buttonElement

\* The execution of the call o on the Tag t with listeners obs.
Execution(o, t, obs) ==
  CASE o.name = "show" -> show(Enter(t), obs)
    [] o.name = "hide" -> hide(Enter(t), obs)
    [] o.name = "setText" -> setText(Enter(t), o.args[1], obs)
    [] o.name = "setPosition" -> setPosition(Enter(t), o.args[1], o.args[2], obs)
    [] o.name = "setButtonAttributes" -> setButtonAttributes(Enter(t), o.args[1], obs)
    [] o.name = "setPopupAttributes" -> setPopupAttributes(Enter(t), o.args[1], obs)

\* C13: exactly the intents are cancelable; a listener that calls
\* preventDefault() on a confirm changes nothing: the mutation stays, and
\* the call ends as it does when no listener interferes.
C13_ConfirmNotVetoable ==
  /\ \A i \in 1..Len(trace) : trace[i].cancelable <=> trace[i].type \in Intents
  /\ (Called(Setters \cup {"show", "hide"}) /\ op.obs.confirm
        /\ Len(trace) >= 1 /\ trace[Len(trace)].type \in Confirms) =>
       /\ ~trace[Len(trace)].cancelable
       /\ tag = trace[Len(trace)].seen
       /\ tag = Execution(op, prev, NoObs).tag
       /\ [i \in 1..Len(trace) |-> trace[i].type]
            = [i \in 1..Len(Execution(op, prev, NoObs).trace) |->
                 Execution(op, prev, NoObs).trace[i].type]
       /\ result = Returned

\* show() on a hidden Tag with a listener calling preventDefault() on shown.
C13_Witness ==
  /\ Called({"show"}) /\ op.obs.confirm
  /\ prev.popupElement.style.display = "none"
  /\ tag.popupElement.style.display = ""
  /\ Types = <<"taggd.tag.show", "taggd.tag.shown">>

\* C14: createFromObject(o) does what new Tag(o.position, o.text,
\* o.buttonAttributes, o.popupAttributes) does: same events, same elements,
\* same outcome; for {position: {x: 0.5, y: 0.25}, text: 'hi'} the popup,
\* once shown, has left '50%', top '25%' and markup 'hi'.
PlainObject ==
  [position |-> [x |-> Num(2), y |-> Num(1)], text |-> Str("hi"),
   buttonAttributes |-> NoArg, popupAttributes |-> NoArg]

C14_CreateFromObject ==
  op.name = "createFromObject" =>
    LET o == op.args[1]
        c == constructor(o.position, o.text, o.buttonAttributes, o.popupAttributes)
    IN /\ trace = c.trace
       /\ tag = c.tag
       /\ result = Outcome(c)
       /\ exists = ~Threw(c)
       /\ o = PlainObject =>
            LET popup == show(Enter(tag), NoObs).tag.popupElement
            IN /\ popup.style = [display |-> "", left |-> "50%", top |-> "25%"]
               /\ popup.innerHTML = "hi"

\* createFromObject with different button and popup attributes.
C14_Witness ==
  /\ op.name = "createFromObject" /\ exists
  /\ op.args[1].buttonAttributes = Obj(<<Attr("class", "a")>>)
  /\ op.args[1].popupAttributes = Obj(<<Attr("style", "display: block; left: 10%;")>>)
  /\ tag.buttonElement.attrs.class = "a"
  /\ tag.popupElement.attrs.class = Null

\* C15 as stated: display changes only by a non-vetoed show()/hide(), left
\* and top only by a non-vetoed setPosition(); setText, setButtonAttributes,
\* setPopupAttributes and the attribute merge itself never change them,
\* whatever the mapping.
DisplayChanged == tag.popupElement.style.display # prev.popupElement.style.display
PlaceChanged ==
  \/ tag.popupElement.style.left # prev.popupElement.style.left
  \/ tag.popupElement.style.top # prev.popupElement.style.top
CarriesStyle(a) == \E i \in 1..Len(a.entries) : a.entries[i].name = "style"
RestyledPopup ==
  \/ op.name = "setPopupAttributes" /\ ~op.obs.intent /\ CarriesStyle(op.args[1])
  \/ /\ op.name = "setElementAttributes"
     /\ op.args[1] = "popupElement"
     /\ CarriesStyle(op.args[2])
Calls == Setters \cup {"show", "hide", "setElementAttributes"}

C15_OnlyShowHideSetPosition ==
  Called(Calls) =>
    /\ DisplayChanged => (op.name \in {"show", "hide"} /\ ~op.obs.intent)
    /\ PlaceChanged => (op.name = "setPosition" /\ ~op.obs.intent)

\* C15, amended: besides show()/hide() and setPosition(), only a merge onto
\* the popup of a mapping that carries `style` changes display, left or
\* top, be it a non-vetoed setPopupAttributes or a direct
\* Tag.setElementAttributes on the popup; setText, any merge onto the button
\* and a merge onto the popup without `style` change none of them.
C15_ExceptStyleOnPopup ==
  Called(Calls) =>
    /\ DisplayChanged =>
         \/ op.name \in {"show", "hide"} /\ ~op.obs.intent
         \/ RestyledPopup
    /\ PlaceChanged =>
         \/ op.name = "setPosition" /\ ~op.obs.intent
         \/ RestyledPopup

\* A non-vetoed setPopupAttributes({class: 'b'}) on a hidden, placed popup.
C15_Witness ==
  /\ Called({"setPopupAttributes"}) /\ ~op.obs.intent
  /\ op.args[1] = Obj(<<Attr("class", "b")>>)
  /\ prev.popupElement.style = [display |-> "none", left |-> "50%", top |-> "25%"]
  /\ tag.popupElement.attrs.class = "b"
  /\ tag.popupElement.style = prev.popupElement.style

\* C17: a successful construction dispatches change, changed on the button,
\* then three times change, changed on the popup (attributes, position,
\* text), then hide, hidden on the popup, and nothing else; each step's
\* mutation is in place when the next step's intent is dispatched.
Built ==
  IF op.name = "constructor"
    THEN [position |-> op.args[1], text |-> op.args[2],
          buttonAttributes |-> op.args[3], popupAttributes |-> op.args[4]]
    ELSE op.args[1]

C17_ConstructionOrder ==
  (op.name \in {"constructor", "createFromObject"} /\ exists) =>
    /\ Types = <<"taggd.tag.change", "taggd.tag.changed",
                 "taggd.tag.change", "taggd.tag.changed",
                 "taggd.tag.change", "taggd.tag.changed",
                 "taggd.tag.change", "taggd.tag.changed",
                 "taggd.tag.hide", "taggd.tag.hidden">>
    /\ \A i \in 1..2 : trace[i].target = "buttonElement"
    /\ \A i \in 3..10 : trace[i].target = "popupElement"
    /\ trace[1].seen = NewTag
    /\ \A k \in 1..4 : trace[2 * k + 1].seen = trace[2 * k].seen
    /\ trace[3].seen.buttonElement = tag.buttonElement
    /\ trace[3].seen.popupElement = createElement
    /\ trace[5].seen.popupElement.attrs = tag.popupElement.attrs
    /\ trace[5].seen.popupElement.style
         = setEachAttribute(createElement,
                            DefaultObject(Built.popupAttributes).entries).style
    /\ trace[7].seen.popupElement.style.left = Percent(Built.position.x)
    /\ trace[7].seen.popupElement.style.top = Percent(Built.position.y)
    /\ trace[7].seen.popupElement.innerHTML = ""
    /\ trace[9].seen.popupElement.innerHTML = ToString(Built.text)
    /\ trace[9].seen.popupElement.style.display # "none"
    /\ trace[10].seen = tag
    /\ tag.popupElement.style.display = "none"

\* new Tag({x: -1.5, y: 1.25}, '<b>x</b>', {class: 'a'}, {style: ...}).
C17_Witness ==
  /\ op.name = "constructor" /\ exists
  /\ Built.popupAttributes = Obj(<<Attr("style", "display: block; left: 10%;")>>)
  /\ trace[5].seen.popupElement.style.left = "10%"
  /\ trace[7].seen.popupElement.style.left = "-150%"
  /\ trace[9].seen.popupElement.style.display = "block"

\* C18: show() and hide() do not look at the current display: on a Tag
\* already shown (hidden) they still dispatch the intent and, unless vetoed,
\* the confirm; a second show() (hide()) leaves what the first left, and a
\* hide() after a show() leaves the popup hidden.
C18_ShowHideIgnoreVisibility ==
  /\ Called({"show"}) =>
       /\ Types = IF op.obs.intent THEN <<"taggd.tag.show">>
                  ELSE <<"taggd.tag.show", "taggd.tag.shown">>
       /\ ~op.obs.intent =>
            /\ tag.popupElement.style.display = ""
            /\ show(Enter(tag), NoObs).tag = tag
            /\ hide(Enter(tag), NoObs).tag.popupElement.style.display = "none"
            /\ hide(Enter(tag), NoObs).tag = hide(Enter(prev), NoObs).tag
  /\ Called({"hide"}) =>
       /\ Types = IF op.obs.intent THEN <<"taggd.tag.hide">>
                  ELSE <<"taggd.tag.hide", "taggd.tag.hidden">>
       /\ ~op.obs.intent =>
            /\ tag.popupElement.style.display = "none"
            /\ hide(Enter(tag), NoObs).tag = tag

\* A non-vetoed show() on a Tag that a show() had already shown.
C18_Witness ==
  /\ Called({"show"}) /\ ~op.obs.intent
  /\ prev.popupElement.style.display = ""
  /\ nops >= 2
  /\ Types = <<"taggd.tag.show", "taggd.tag.shown">>
  /\ tag = prev

\* C16: a call that the listener of an intent makes on the same Tag runs
\* to its end inside the outer dispatch: the events are nested (outer
\* intent, inner intent, inner confirm, outer confirm), the inner call sees
\* the state the outer one found, and the outer mutation, unless vetoed, is
\* applied afterwards on top of the inner one.  A show() whose listener
\* calls hide() gives show, hide, hidden, shown and ends visible.
NestedTypes(call) == <<IntentOfOp(call.name), ConfirmOf(IntentOfOp(call.name))>>

C16_NestedCall ==
  (Called({"show", "hide"}) /\ op.obs.nested # NoCall) =>
    LET call == op.obs.nested
        inner == Execution(call, prev, NoObs).tag
    IN /\ result = Returned
       /\ Len(trace) >= 3
       /\ trace[1].type = IntentOfOp(op.name) /\ trace[1].seen = prev
       /\ trace[2].type = IntentOfOp(call.name) /\ trace[2].seen = prev
       /\ trace[3].type = ConfirmOf(IntentOfOp(call.name)) /\ trace[3].seen = inner
       /\ IF op.obs.intent
            THEN Len(trace) = 3 /\ tag = inner
            ELSE /\ Len(trace) = 4
                 /\ trace[4].type = ConfirmOf(IntentOfOp(op.name))
                 /\ trace[4].seen = tag
                 /\ tag = [inner EXCEPT !.popupElement.style.display =
                                           IF op.name = "show" THEN "" ELSE "none"]
       /\ (op.name = "show" /\ call.name = "hide" /\ ~op.obs.intent) =>
            /\ Types = <<"taggd.tag.show", "taggd.tag.hide",
                         "taggd.tag.hidden", "taggd.tag.shown">>
            /\ tag.popupElement.style.display = ""

\* show() on a shown Tag, with a listener of the show intent calling hide().
C16_Witness ==
  /\ Called({"show"}) /\ ~op.obs.intent
  /\ op.obs.nested.name = "hide"
  /\ prev.popupElement.style.display = ""
  /\ trace[3].seen.popupElement.style.display = "none"
  /\ tag.popupElement.style.display = ""

====
